---------------------------- MODULE Spec2Model ----------------------------
(***************************************************************************)
(* A model of protomesh-go's AWS Lambda controller (package lambda):       *)
(* the envelope codec (Request.UnmarshalProtobuf, Response.MarshalProtobuf)*)
(* the status translator (convertResultError), the synthetic server stream *)
(* (grpcServerStream), the method binder (RegisterGRPCService) and the     *)
(* dispatcher (HandleLambda).                                              *)
(*                                                                         *)
(* A Go string and a Go []byte are both modelled as a sequence of bytes    *)
(* (numbers in 0..255); a text constant is the sequence of its ASCII codes.*)
(***************************************************************************)
EXTENDS Integers, Sequences, FiniteSets, TLC

(***************************************************************************)
(* Texts the code formats into response bodies, and texts of the errors    *)
(* the libraries it calls return.                                          *)
(***************************************************************************)
\* "Failed to unmarshal request: "
TxtFailedUnmarshal == <<70, 97, 105, 108, 101, 100, 32, 116, 111, 32, 117, 110, 109, 97, 114, 115, 104, 97, 108, 32, 114, 101, 113, 117, 101, 115, 116, 58, 32>>
\* "Failed to marshal response: "
TxtFailedMarshal == <<70, 97, 105, 108, 101, 100, 32, 116, 111, 32, 109, 97, 114, 115, 104, 97, 108, 32, 114, 101, 115, 112, 111, 110, 115, 101, 58, 32>>
\* "Invalid method output: "
TxtInvalidOutput == <<73, 110, 118, 97, 108, 105, 100, 32, 109, 101, 116, 104, 111, 100, 32, 111, 117, 116, 112, 117, 116, 58, 32>>
\* "Invalid error type: "
TxtInvalidErrType == <<73, 110, 118, 97, 108, 105, 100, 32, 101, 114, 114, 111, 114, 32, 116, 121, 112, 101, 58, 32>>
\* "illegal base64 data at input byte " (encoding/base64 CorruptInputError)
TxtIllegalBase64 == <<105, 108, 108, 101, 103, 97, 108, 32, 98, 97, 115, 101, 54, 52, 32, 100, 97, 116, 97, 32, 97, 116, 32, 105, 110, 112, 117, 116, 32, 98, 121, 116, 101, 32>>
\* "proto: cannot parse invalid wire-format data" (proto.Unmarshal)
TxtProtoParse == <<112, 114, 111, 116, 111, 58, 32, 99, 97, 110, 110, 111, 116, 32, 112, 97, 114, 115, 101, 32, 105, 110, 118, 97, 108, 105, 100, 32, 119, 105, 114, 101, 45, 102, 111, 114, 109, 97, 116, 32, 100, 97, 116, 97>>
\* "proto: field contains invalid UTF-8" (proto.Marshal / proto.Unmarshal)
TxtProtoUTF8 == <<112, 114, 111, 116, 111, 58, 32, 102, 105, 101, 108, 100, 32, 99, 111, 110, 116, 97, 105, 110, 115, 32, 105, 110, 118, 97, 108, 105, 100, 32, 85, 84, 70, 45, 56>>

(***************************************************************************)
(* Error values.  A Go value handed around as an error (or, for the second *)
(* result of a reflected method, as `any`) is one of:                      *)
(*   nil      - no error                                                   *)
(*   status   - an error carrying a gRPC status (code, message)            *)
(*   plain    - any other error; msg is its Error() text                   *)
(*   nonerror - a value that does not implement error; msg is its %T text  *)
(***************************************************************************)
ErrNil == [kind |-> "nil", code |-> 0, msg |-> <<>>]

StatusErr(c, m) == [kind |-> "status", code |-> c, msg |-> m]

PlainErr(m) == [kind |-> "plain", code |-> 0, msg |-> m]

NonError(t) == [kind |-> "nonerror", code |-> 0, msg |-> t]

\* err.Error() as fmt's %v prints it
ErrorText(e) == e.msg

(***************************************************************************)
(* encoding/base64, RawStdEncoding: the standard alphabet without padding. *)
(***************************************************************************)
\* an encoder with the URL alphabet ('-' and '_' for 62 and 63)
EncCharURL(v) ==
    IF v < 26 THEN 65 + v
    ELSE IF v < 52 THEN 97 + (v - 26)
    ELSE IF v < 62 THEN 48 + (v - 52)
    ELSE IF v = 62 THEN 45
    ELSE 95

\* encodeStd[v]: the ASCII code of the character for the 6-bit value v
EncChar(v) ==
    IF v < 26 THEN 65 + v
    ELSE IF v < 52 THEN 97 + (v - 26)
    ELSE IF v < 62 THEN 48 + (v - 52)
    ELSE IF v = 62 THEN 43
    ELSE 47

\* decodeMap[c]: the 6-bit value of the character c, 255 when c is not in the alphabet
DecChar(c) ==
    IF c >= 65 /\ c <= 90 THEN c - 65
    ELSE IF c >= 97 /\ c <= 122 THEN c - 97 + 26
    ELSE IF c >= 48 /\ c <= 57 THEN c - 48 + 52
    ELSE IF c = 43 THEN 62
    ELSE IF c = 47 THEN 63
    ELSE 255

RECURSIVE EncodeToString(_)
EncodeToString(src) ==
    IF Len(src) = 0 THEN <<>>
    ELSE IF Len(src) = 1 THEN
        LET val == src[1] * 65536
        IN  <<EncChar(val \div 262144), EncChar((val \div 4096) % 64)>>
    ELSE IF Len(src) = 2 THEN
        LET val == src[1] * 65536 + src[2] * 256
        IN  <<EncChar(val \div 262144), EncChar((val \div 4096) % 64),
              EncChar((val \div 64) % 64)>>
    ELSE
        LET val == src[1] * 65536 + src[2] * 256 + src[3]
        IN  <<EncChar(val \div 262144), EncChar((val \div 4096) % 64),
              EncChar((val \div 64) % 64), EncChar(val % 64)>>
            \o EncodeToString(SubSeq(src, 4, Len(src)))

\* the bytes of one quantum of 2, 3 or 4 six-bit values
Quantum(dbuf) ==
    LET d(i) == IF i <= Len(dbuf) THEN dbuf[i] ELSE 0
        val == d(1) * 262144 + d(2) * 4096 + d(3) * 64 + d(4)
        b == <<val \div 65536, (val \div 256) % 256, val % 256>>
    IN  SubSeq(b, 1, Len(dbuf) - 1)

\* decodeQuantum's loop: s the source, si the number of characters read, dbuf the
\* six-bit values of the quantum being read, out the bytes decoded so far.
\* err is -1 for no error, else the offset of CorruptInputError.
RECURSIVE DecodeQuanta(_, _, _, _)
DecodeQuanta(s, si, dbuf, out) ==
    IF si = Len(s) THEN
        IF Len(dbuf) = 0 THEN [bytes |-> out, err |-> -1]
        ELSE IF Len(dbuf) = 1 THEN [bytes |-> out, err |-> si - 1]
        ELSE [bytes |-> out \o Quantum(dbuf), err |-> -1]
    ELSE
        LET in == s[si + 1]
        IN  IF DecChar(in) # 255 THEN
                IF Len(dbuf) = 3
                THEN DecodeQuanta(s, si + 1, <<>>, out \o Quantum(Append(dbuf, DecChar(in))))
                ELSE DecodeQuanta(s, si + 1, Append(dbuf, DecChar(in)), out)
            ELSE IF in = 10 \/ in = 13 THEN DecodeQuanta(s, si + 1, dbuf, out)
            ELSE [bytes |-> out, err |-> si]

\* strconv.Itoa for n >= 0
RECURSIVE Itoa(_)
Itoa(n) == IF n < 10 THEN <<48 + n>> ELSE Itoa(n \div 10) \o <<48 + (n % 10)>>

\* the result of DecodeString from that of the loop
decodeResult(r) ==
    IF r.err = -1 THEN [bytes |-> r.bytes, err |-> ErrNil]
    ELSE [bytes |-> r.bytes, err |-> PlainErr(TxtIllegalBase64 \o Itoa(r.err))]

\* base64.RawStdEncoding.DecodeString(s)
DecodeString(s) == decodeResult(DecodeQuanta(s, 0, <<>>, <<>>))

(***************************************************************************)
(* google.golang.org/protobuf/proto for the one message type of the model: *)
(*     message Msg { string value = 1; }    (proto3)                       *)
(* A message is [value, unknown]: the field and the raw bytes of the       *)
(* unknown fields met while parsing, which Marshal writes back after the   *)
(* known field.                                                            *)
(***************************************************************************)
EmptyMsg == [value |-> <<>>, unknown |-> <<>>]

\* utf8.Valid
RECURSIVE ValidUTF8(_)
ValidUTF8(b) ==
    LET n == Len(b)
        cont(i) == i <= n /\ b[i] >= 128 /\ b[i] <= 191
        in(i, lo, hi) == i <= n /\ b[i] >= lo /\ b[i] <= hi
        rest(k) == ValidUTF8(SubSeq(b, k + 1, n))
    IN  IF n = 0 THEN TRUE
        ELSE IF b[1] < 128 THEN rest(1)
        ELSE IF b[1] >= 194 /\ b[1] <= 223 THEN cont(2) /\ rest(2)
        ELSE IF b[1] = 224 THEN in(2, 160, 191) /\ cont(3) /\ rest(3)
        ELSE IF b[1] = 237 THEN in(2, 128, 159) /\ cont(3) /\ rest(3)
        ELSE IF b[1] >= 225 /\ b[1] <= 239 THEN cont(2) /\ cont(3) /\ rest(3)
        ELSE IF b[1] = 240 THEN in(2, 144, 191) /\ cont(3) /\ cont(4) /\ rest(4)
        ELSE IF b[1] >= 241 /\ b[1] <= 243 THEN cont(2) /\ cont(3) /\ cont(4) /\ rest(4)
        ELSE IF b[1] = 244 THEN in(2, 128, 143) /\ cont(3) /\ cont(4) /\ rest(4)
        ELSE FALSE

\* protowire.AppendVarint
RECURSIVE AppendVarint(_)
AppendVarint(v) ==
    IF v < 128 THEN <<v>> ELSE <<128 + (v % 128)>> \o AppendVarint(v \div 128)

\* protowire.ConsumeVarint: the value and the number of bytes read, n = 0 on a
\* truncated or overlong varint
RECURSIVE ConsumeVarint(_)
ConsumeVarint(b) ==
    IF Len(b) = 0 THEN [val |-> 0, n |-> 0]
    ELSE IF b[1] < 128 THEN [val |-> b[1], n |-> 1]
    ELSE LET r == ConsumeVarint(Tail(b))
         IN  IF r.n = 0 \/ r.n >= 10 THEN [val |-> 0, n |-> 0]
             ELSE [val |-> (b[1] - 128) + 128 * r.val, n |-> r.n + 1]

\* protowire.ConsumeFieldValue: the length of the value of wire type typ of field
\* num at the head of b, -1 when it cannot be parsed
RECURSIVE ConsumeFieldValue(_, _, _)
RECURSIVE ConsumeGroup(_, _)
ConsumeFieldValue(num, typ, b) ==
    CASE typ = 0 -> LET v == ConsumeVarint(b) IN IF v.n = 0 THEN -1 ELSE v.n
      [] typ = 1 -> IF Len(b) < 8 THEN -1 ELSE 8
      [] typ = 2 -> LET v == ConsumeVarint(b)
                    IN  IF v.n = 0 \/ v.val > Len(b) - v.n THEN -1 ELSE v.n + v.val
      [] typ = 3 -> ConsumeGroup(num, b)
      [] typ = 5 -> IF Len(b) < 4 THEN -1 ELSE 4
      [] OTHER -> -1

\* protowire.ConsumeGroup: the length up to and including the end-group tag of num
ConsumeGroup(num, b) ==
    LET tag == ConsumeVarint(b)
        n2 == tag.val \div 8
        t2 == tag.val % 8
        after == SubSeq(b, tag.n + 1, Len(b))
    IN  IF tag.n = 0 \/ n2 = 0 THEN -1
        ELSE IF t2 = 4 THEN (IF n2 = num THEN tag.n ELSE -1)
        ELSE LET vlen == ConsumeFieldValue(n2, t2, after)
             IN  IF vlen < 0 THEN -1
                 ELSE LET more == ConsumeGroup(num, SubSeq(after, vlen + 1, Len(after)))
                      IN  IF more < 0 THEN -1 ELSE tag.n + vlen + more

\* the field loop of proto.Unmarshal: unmarshalFields reads the tag of the next
\* field of b, unmarshalField its value (vlen is the value's length, -1 when tag
\* or value cannot be parsed)
RECURSIVE unmarshalFields(_, _)
RECURSIVE unmarshalField(_, _, _, _, _)
unmarshalTag(b, m, tag, rest) ==
    unmarshalField(b, m, tag, rest,
                   IF tag.n = 0 \/ tag.val \div 8 = 0 THEN -1
                   ELSE ConsumeFieldValue(tag.val \div 8, tag.val % 8, rest))

unmarshalString(m, val, after) ==
    IF ~ValidUTF8(val) THEN [msg |-> m, err |-> PlainErr(TxtProtoUTF8)]
    ELSE unmarshalFields(after, [m EXCEPT !.value = val])

unmarshalField(b, m, tag, rest, vlen) ==
    IF vlen < 0 THEN [msg |-> m, err |-> PlainErr(TxtProtoParse)]
    ELSE IF tag.val \div 8 = 1 /\ tag.val % 8 = 2 THEN
        unmarshalString(m, SubSeq(rest, ConsumeVarint(rest).n + 1, vlen),
                        SubSeq(rest, vlen + 1, Len(rest)))
    ELSE unmarshalFields(SubSeq(rest, vlen + 1, Len(rest)),
                         [m EXCEPT !.unknown = @ \o SubSeq(b, 1, tag.n + vlen)])

consumeTag(b, m, tag) == unmarshalTag(b, m, tag, SubSeq(b, tag.n + 1, Len(b)))

unmarshalFields(b, m) ==
    IF Len(b) = 0 THEN [msg |-> m, err |-> ErrNil]
    ELSE consumeTag(b, m, ConsumeVarint(b))

\* proto.Unmarshal(b, m): m is reset, then the fields of b are merged into it
Unmarshal(b) == unmarshalFields(b, EmptyMsg)

\* proto.Marshal(m)
Marshal(m) ==
    IF ~ValidUTF8(m.value) THEN [bytes |-> <<>>, err |-> PlainErr(TxtProtoUTF8)]
    ELSE [bytes |-> (IF Len(m.value) = 0 THEN <<>>
                     ELSE <<10>> \o AppendVarint(Len(m.value)) \o m.value) \o m.unknown,
          err |-> ErrNil]


(***************************************************************************)
(* net/http status codes and google.golang.org/grpc/codes the code names.  *)
(***************************************************************************)
StatusProcessing == 102
StatusOK == 200
StatusBadRequest == 400
StatusUnauthorized == 401
StatusForbidden == 403
StatusNotFound == 404
StatusConflict == 409
StatusPreconditionFailed == 412
StatusTooManyRequests == 429
StatusInternalServerError == 500
StatusNotImplemented == 501
StatusServiceUnavailable == 503

CodeCanceled == 1
CodeUnknown == 2
CodeInvalidArgument == 3
CodeDeadlineExceeded == 4
CodeNotFound == 5
CodeAlreadyExists == 6
CodePermissionDenied == 7
CodeResourceExhausted == 8
CodeFailedPrecondition == 9
CodeAborted == 10
CodeOutOfRange == 11
CodeUnimplemented == 12
CodeInternal == 13
CodeUnavailable == 14
CodeDataLoss == 15
CodeUnauthenticated == 16

(***************************************************************************)
(* google.golang.org/grpc/metadata.  An MD (map[string][]string) is a      *)
(* function from the keys it holds to sequences of values; a nil MD and an *)
(* empty MD are both the function with the empty domain.                   *)
(***************************************************************************)
EmptyMD == [k \in {} |-> <<>>]

\* strings.ToLower on the header names of the model
ToLower(k) == IF k = "K1" THEN "k1" ELSE IF k = "K2" THEN "k2" ELSE k

\* metadata.New(map[string]string): keys lower-cased, one value each
\* (two keys that differ only in case are not in the model's inputs)
MetadataNew(m) ==
    [k \in {ToLower(j) : j \in DOMAIN m} |->
        <<m[CHOOSE j \in DOMAIN m : ToLower(j) = k]>>]

\* metadata.Join(a, b): out[k] = append(out[k], v...) for a, then for b
Join(a, b) ==
    [k \in DOMAIN a \cup DOMAIN b |->
        (IF k \in DOMAIN a THEN a[k] ELSE <<>>) \o (IF k \in DOMAIN b THEN b[k] ELSE <<>>)]

\* A context.Context as far as metadata goes: the incoming MD and the outgoing
\* MD stored in it, each possibly absent.
NoMD == [ok |-> FALSE, md |-> EmptyMD]

SomeMD(md) == [ok |-> TRUE, md |-> md]

\* metadata.NewIncomingContext(ctx, md)
NewIncomingContext(c, md) == [c EXCEPT !.incoming = SomeMD(md)]

\* metadata.NewOutgoingContext(ctx, md)
NewOutgoingContext(c, md) == [c EXCEPT !.outgoing = SomeMD(md)]

\* metadata.FromOutgoingContext(ctx): a copy of the stored MD with its keys
\* lower-cased, and whether there is one
FromOutgoingContext(c) ==
    IF ~c.outgoing.ok THEN NoMD
    ELSE LET md == c.outgoing.md
         IN  SomeMD([k \in {ToLower(j) : j \in DOMAIN md} |->
                        md[CHOOSE j \in DOMAIN md : ToLower(j) = k]])

(***************************************************************************)
(* Envelope codec: Request.UnmarshalProtobuf and Response.MarshalProtobuf. *)
(***************************************************************************)
\* return proto.Unmarshal(msg, m), after DecodeString gave d
unmarshalDecoded(d) ==
    IF d.err # ErrNil THEN [msg |-> EmptyMsg, err |-> d.err]
    ELSE Unmarshal(d.bytes)

\* func (r *Request) UnmarshalProtobuf(m proto.Message) error
UnmarshalProtobuf(r) ==
    IF r.IsBase64Encoded THEN unmarshalDecoded(DecodeString(r.Body))
    ELSE Unmarshal(r.Body)

\* what MarshalProtobuf does with the outcome body of proto.Marshal(m)
\* an envelope that encodes the body and leaves the flag as it was
setBodyOnly(r, body) ==
    IF body.err # ErrNil THEN [res |-> r, err |-> body.err]
    ELSE [res |-> [r EXCEPT !.Body = EncodeToString(body.bytes)], err |-> ErrNil]

setBody(r, body) ==
    IF body.err # ErrNil THEN [res |-> r, err |-> body.err]
    ELSE IF Len(body.bytes) > 0 THEN
        [res |-> [r EXCEPT !.Body = EncodeToString(body.bytes),
                           !.IsBase64Encoded = TRUE],
         err |-> ErrNil]
    ELSE
        [res |-> [r EXCEPT !.Body = <<>>, !.IsBase64Encoded = FALSE],
         err |-> ErrNil]

\* func (r *Response) MarshalProtobuf(m proto.Message) error
MarshalProtobuf(r, m) == setBody(r, Marshal(m))

(***************************************************************************)
(* Status translator.                                                      *)
(***************************************************************************)
\* a translator that reports a conflict for already-exists only and takes
\* aborted for an internal error
TransportStatusAborted(code, current) ==
    CASE code = CodeInvalidArgument -> StatusBadRequest
      [] code = CodeNotFound -> StatusNotFound
      [] code = CodeAlreadyExists -> StatusConflict
      [] code = CodePermissionDenied -> StatusForbidden
      [] code = CodeUnauthenticated -> StatusUnauthorized
      [] code = CodeResourceExhausted -> StatusTooManyRequests
      [] code = CodeFailedPrecondition -> StatusPreconditionFailed
      [] code = CodeAborted -> StatusInternalServerError
      [] code = CodeOutOfRange -> StatusBadRequest
      [] code = CodeUnimplemented -> StatusNotImplemented
      [] code = CodeInternal -> StatusInternalServerError
      [] code = CodeUnavailable -> StatusServiceUnavailable
      [] code = CodeDataLoss -> StatusInternalServerError
      [] OTHER -> current

\* the switch on err.Code(): a code of no case leaves the status as it is
TransportStatus(code, current) ==
    CASE code = CodeInvalidArgument -> StatusBadRequest
      [] code = CodeNotFound -> StatusNotFound
      [] code = CodeAlreadyExists -> StatusConflict
      [] code = CodePermissionDenied -> StatusForbidden
      [] code = CodeUnauthenticated -> StatusUnauthorized
      [] code = CodeResourceExhausted -> StatusTooManyRequests
      [] code = CodeFailedPrecondition -> StatusPreconditionFailed
      [] code = CodeAborted -> StatusConflict
      [] code = CodeOutOfRange -> StatusBadRequest
      [] code = CodeUnimplemented -> StatusNotImplemented
      [] code = CodeInternal -> StatusInternalServerError
      [] code = CodeUnavailable -> StatusServiceUnavailable
      [] code = CodeDataLoss -> StatusInternalServerError
      [] OTHER -> current

\* status.FromError(err) for a non-nil error: ok exactly when err carries a status
FromError(e) == [ok |-> e.kind = "status", code |-> e.code, msg |-> e.msg]

\* a translator that lets a value that is no error pass as no error
convertResultErrorSwallow(r, e) ==
    IF e.kind = "status" THEN
        [res |-> [r EXCEPT !.Body = e.msg,
                           !.IsBase64Encoded = FALSE,
                           !.StatusCode = TransportStatus(e.code, @)],
         err |-> e]
    ELSE IF e.kind = "plain" THEN [res |-> r, err |-> e]
    ELSE [res |-> r, err |-> ErrNil]

\* a translator that answers 500 to every error it has no case for
convertResultErrorInternal(r, e) ==
    IF e.kind = "status" THEN
        [res |-> [r EXCEPT !.Body = e.msg,
                           !.IsBase64Encoded = FALSE,
                           !.StatusCode = TransportStatus(e.code, StatusInternalServerError)],
         err |-> e]
    ELSE IF e.kind = "plain" THEN
        [res |-> [r EXCEPT !.StatusCode = StatusInternalServerError], err |-> e]
    ELSE
        [res |-> [r EXCEPT !.StatusCode = StatusInternalServerError,
                           !.Body = TxtInvalidErrType \o e.msg],
         err |-> PlainErr(TxtInvalidErrType \o e.msg)]

\* func convertResultError(res *Response, err any) error
convertResultError(r, e) ==
    IF e.kind \in {"status", "plain"} THEN
        LET st == FromError(e)
        IN  IF st.ok THEN
                [res |-> [r EXCEPT !.Body = st.msg,
                                   !.IsBase64Encoded = FALSE,
                                   !.StatusCode = TransportStatus(st.code, @)],
                 err |-> e]
            ELSE [res |-> r, err |-> e]
    ELSE
        LET body == TxtInvalidErrType \o e.msg
        IN  [res |-> [r EXCEPT !.StatusCode = StatusInternalServerError, !.Body = body],
             err |-> PlainErr(body)]


(***************************************************************************)
(* Values a reflected method or a stream handler hands over as a message:  *)
(* a nil interface, a proto.Message, or a value that is no proto.Message.  *)
(***************************************************************************)
NilValue == [kind |-> "nil", msg |-> EmptyMsg]

MsgValue(m) == [kind |-> "msg", msg |-> m]

OtherValue == [kind |-> "other", msg |-> EmptyMsg]

(***************************************************************************)
(* Synthetic stream adapter (grpcServerStream).  g = [ctx, res]: the       *)
(* stream's context and the response it shares with the dispatcher; rq is  *)
(* the request it was built with.                                          *)
(***************************************************************************)
\* func newGrpcServerStream(ctx, req, res) *grpcServerStream
newGrpcServerStream(c, r) == [ctx |-> c, res |-> r]

\* SendMsg once g.res.MarshalProtobuf returned mp
sendMarshalled(g, mp) ==
    IF mp.err # ErrNil THEN
        [g |-> [g EXCEPT !.res.StatusCode = StatusInternalServerError,
                         !.res.Body = TxtFailedMarshal \o ErrorText(mp.err)],
         err |-> mp.err]
    ELSE [g |-> [g EXCEPT !.res = mp.res], err |-> ErrNil]

\* func (g *grpcServerStream) SendMsg(m interface{}) error
SendMsg(g, m) ==
    IF m.kind = "nil" THEN [g |-> [g EXCEPT !.res.Body = <<>>], err |-> ErrNil]
    ELSE sendMarshalled(g, MarshalProtobuf(g.res, m.msg))

\* RecvMsg once g.req.UnmarshalProtobuf returned um
recvUnmarshalled(g, um) ==
    IF um.err # ErrNil THEN
        [g |-> [g EXCEPT !.res.StatusCode = StatusBadRequest,
                         !.res.Body = TxtFailedUnmarshal \o ErrorText(um.err)],
         msg |-> um.msg, err |-> um.err]
    ELSE [g |-> g, msg |-> um.msg, err |-> ErrNil]

\* func (g *grpcServerStream) RecvMsg(m interface{}) error
RecvMsg(g, rq) == recvUnmarshalled(g, UnmarshalProtobuf(rq))

\* a stream whose metadata calls replace the outgoing metadata
SetTrailerReplace(g, m) == [g EXCEPT !.ctx = NewOutgoingContext(g.ctx, m)]

\* func (g *grpcServerStream) SetTrailer(m metadata.MD)
SetTrailer(g, m) ==
    LET outMeta == FromOutgoingContext(g.ctx)
    IN  [g EXCEPT !.ctx = NewOutgoingContext(g.ctx, Join(outMeta.md, m))]

\* func (g *grpcServerStream) SendHeader(m metadata.MD) error
SendHeader(g, m) == SetTrailer(g, m)

\* func (g *grpcServerStream) SetHeader(m metadata.MD) error
SetHeader(g, m) == SetTrailer(g, m)

(***************************************************************************)
(* Method binder: the handlers RegisterGRPCService builds.                 *)
(***************************************************************************)
\* key := strings.Join([]string{"/", desc.ServiceName, "/", name}, "")
RoutingKey(serviceName, name) == "/" \o serviceName \o "/" \o name

\* inMeta := metadata.Join(metadata.New(req.Headers), req.MultiValueHeaders)
\* callCtx := metadata.NewOutgoingContext(metadata.NewIncomingContext(ctx, inMeta),
\*                                        metadata.New(map[string]string{}))
CallContext(c, rq) ==
    NewOutgoingContext(
        NewIncomingContext(c, Join(MetadataNew(rq.Headers), rq.MultiValueHeaders)),
        MetadataNew(EmptyMD))

\* methodCaller.Call(callCtx, callInput): what the implementation impl hands back
\* for the input; an echoing implementation returns its input.  Whatever the
\* implementation attaches to the outgoing side of the context it was given
\* lives in a context derived from callCtx, which only the implementation holds.
MethodCall(impl, callCtx, input) ==
    [n |-> impl.n,
     out |-> IF impl.echo THEN MsgValue(input) ELSE impl.out,
     err |-> impl.err,
     ctx |-> NewOutgoingContext(callCtx,
                 Join(FromOutgoingContext(callCtx).md, impl.attached))]

\* fmt.Sprintf("%+v", result) for the n values a method returned
RECURSIVE RenderValues(_)
RenderValues(n) ==
    IF n = 0 THEN <<>> ELSE IF n = 1 THEN <<63>> ELSE RenderValues(n - 1) \o <<32, 63>>

\* if outMeta, ok := metadata.FromOutgoingContext(ctx); ok { res.MultiValueHeaders = outMeta }
setOutgoingHeaders(r, outMeta) ==
    IF outMeta.ok THEN [r EXCEPT !.MultiValueHeaders = outMeta.md] ELSE r

\* the unary handler once res.MarshalProtobuf(out) returned mp
unaryMarshalled(r1, mp, call) ==
    IF mp.err # ErrNil THEN
        [res |-> [r1 EXCEPT !.StatusCode = StatusInternalServerError,
                            !.Body = TxtFailedMarshal \o ErrorText(mp.err)],
         err |-> mp.err, panic |-> FALSE, calls |-> call]
    ELSE [res |-> mp.res, err |-> ErrNil, panic |-> FALSE, calls |-> call]

\* return convertResultError(res, err), which gave cv
unaryFailed(cv, call) == [res |-> cv.res, err |-> cv.err, panic |-> FALSE, calls |-> call]

\* the unary handler from `if len(result) != 2` on, r1 being the response
\* with the outgoing headers set
unaryResult(r1, result, call) ==
    IF result.n # 2 THEN
        [res |-> [r1 EXCEPT !.StatusCode = StatusInternalServerError,
                            !.Body = TxtInvalidOutput \o <<91>>
                                     \o RenderValues(result.n) \o <<93>>],
         err |-> ErrNil, panic |-> FALSE, calls |-> call]
    ELSE IF result.err # ErrNil THEN
        unaryFailed(convertResultError(r1, result.err), call)
    ELSE IF result.out.kind = "nil" THEN
        [res |-> [r1 EXCEPT !.Body = <<>>],
         err |-> ErrNil, panic |-> FALSE, calls |-> call]
    ELSE IF result.out.kind # "msg" THEN
        \* out.(proto.Message) panics
        [res |-> r1, err |-> ErrNil, panic |-> TRUE, calls |-> call]
    ELSE unaryMarshalled(r1, MarshalProtobuf(r1, result.out.msg), call)

\* the unary handler once methodCaller.Call returned result for the input
unaryCalled(c, r, name, input, result) ==
    unaryResult(setOutgoingHeaders(r, FromOutgoingContext(c)), result,
                <<[impl |-> name, input |-> input, ctx |-> result.ctx,
                   result |-> [n |-> result.n, out |-> result.out, err |-> result.err]]>>)

\* a unary handler that returns the decode error without a status of its own
unaryUnmarshalledAsIs(c, rq, r, name, impl, um) ==
    IF um.err # ErrNil THEN
        [res |-> [r EXCEPT !.Body = TxtFailedUnmarshal \o ErrorText(um.err)],
         err |-> um.err, panic |-> FALSE, calls |-> <<>>]
    ELSE unaryCalled(c, r, name, um.msg, MethodCall(impl, CallContext(c, rq), um.msg))

\* the unary handler once req.UnmarshalProtobuf(callInput) returned um
unaryUnmarshalled(c, rq, r, name, impl, um) ==
    IF um.err # ErrNil THEN
        [res |-> [r EXCEPT !.StatusCode = StatusBadRequest,
                           !.Body = TxtFailedUnmarshal \o ErrorText(um.err)],
         err |-> um.err, panic |-> FALSE, calls |-> <<>>]
    ELSE unaryCalled(c, r, name, um.msg, MethodCall(impl, CallContext(c, rq), um.msg))

\* The handler registered for a unary method (the closure of controller.go:98-144),
\* run on the dispatcher's ctx c, the request rq and the response r, with impl the
\* behaviour of the method the closure's methodCaller is bound to.
\* panic: the handler panicked (a failed type assertion) instead of returning.
\* calls: the calls of the implementation, each with its input, the context as
\* the implementation left it and what it returned.
UnaryHandler(c, rq, r, name, impl) ==
    unaryUnmarshalled(c, rq, r, name, impl, UnmarshalProtobuf(rq))

\* a stream handler that leaves the status of a completed stream alone
streamResultAsIs(r1, e) ==
    IF e # ErrNil THEN convertResultError(r1, e) ELSE [res |-> r1, err |-> ErrNil]

\* the stream handler once res.MultiValueHeaders is set (r1) and stream.Handler
\* returned e
streamResult(r1, e) ==
    IF e # ErrNil THEN convertResultError(r1, e)
    ELSE [res |-> [r1 EXCEPT !.StatusCode = StatusProcessing], err |-> ErrNil]

\* The end of the handler registered for a server-streaming method
\* (controller.go:161-171), once stream.Handler returned e on the stream g.
StreamHandlerEnd(g, e) ==
    streamResult([g.res EXCEPT !.MultiValueHeaders = FromOutgoingContext(g.ctx).md], e)

(***************************************************************************)
(* Handler registry.  A handler is named by what its closure captured:     *)
(*   [kind |-> "unary",  name |-> the method its methodCaller is bound to] *)
(*   [kind |-> "stream", name |-> the stream whose Handler it calls]       *)
(*   [kind |-> "custom", name |-> ...]  a handler given to RegisterHandler *)
(***************************************************************************)
\* func NewController(): handlers: make(map[string]Handler)
NoHandlers == [k \in {} |-> [kind |-> "custom", name |-> ""]]

\* func (c *Controller[D]) RegisterHandler(key string, handler Handler)
RegisterHandler(h, key, handler) ==
    [k \in DOMAIN h \cup {key} |-> IF k = key THEN handler ELSE h[k]]

\* for _, method := range desc.Methods: methodCaller and methodInput are declared
\* in the loop body, so each closure holds those of its own method.
RECURSIVE RegisterMethods(_, _, _)
RegisterMethods(h, desc, i) ==
    IF i > Len(desc.Methods) THEN h
    ELSE LET method == desc.Methods[i]
         IN  RegisterMethods(
                 RegisterHandler(h, RoutingKey(desc.ServiceName, method.MethodName),
                                 [kind |-> "unary", name |-> method.MethodName]),
                 desc, i + 1)

\* for _, stream := range desc.Streams: the closure refers to the loop variable
\* stream itself.  With one variable per iteration (Go 1.22 and later) it holds
\* its own descriptor; with one variable for the whole loop (before Go 1.22) every
\* closure reads, when it is called, the last descriptor of desc.Streams.
RECURSIVE RegisterStreams(_, _, _, _)
RegisterStreams(h, desc, i, perIteration) ==
    IF i > Len(desc.Streams) THEN h
    ELSE LET stream == desc.Streams[i]
             captured == IF perIteration THEN stream ELSE desc.Streams[Len(desc.Streams)]
         IN  IF stream.ServerStreams /\ ~stream.ClientStreams
             THEN RegisterStreams(
                      RegisterHandler(h, RoutingKey(desc.ServiceName, stream.StreamName),
                                      [kind |-> "stream", name |-> captured.StreamName]),
                      desc, i + 1, perIteration)
             ELSE RegisterStreams(h, desc, i + 1, perIteration)

\* What RegisterGRPCService reports for desc.  The function has no result, and
\* the loop over desc.Streams does nothing for a descriptor that is not
\* server-streaming only (the if of controller.go:151 has no else): no error,
\* no panic, for any desc.
RegisterGRPCServiceReport(desc) == ErrNil

\* func (c *Controller[D]) RegisterGRPCService(desc grpc.ServiceDesc, svc interface{})
RegisterGRPCServiceOn(h, desc, perIteration) ==
    RegisterStreams(RegisterMethods(h, desc, 1), desc, 1, perIteration)

(***************************************************************************)
(* Dispatcher (HandleLambda).                                              *)
(***************************************************************************)
\* a dispatcher whose response starts as a success
InitialResponseOK ==
    [StatusCode |-> StatusOK, Body |-> <<>>, IsBase64Encoded |-> FALSE,
     MultiValueHeaders |-> EmptyMD]

\* res := &Response{&events.APIGatewayProxyResponse{StatusCode: http.StatusNotFound}}
InitialResponse ==
    [StatusCode |-> StatusNotFound, Body |-> <<>>, IsBase64Encoded |-> FALSE,
     MultiValueHeaders |-> EmptyMD]

\* a dispatcher that takes every failure of the matcher for an internal error
MatchFailureInternal(r, e) == [r EXCEPT !.StatusCode = StatusInternalServerError]

\* if err != nil after c.Matcher(ctx, proxyReq): the response returned
MatchFailure(r, e) ==
    LET st == FromError(e)
    IN  IF st.ok /\ st.code = CodeNotFound THEN r
        ELSE [r EXCEPT !.StatusCode = StatusInternalServerError]

\* res.APIGatewayProxyResponse.StatusCode = http.StatusOK, before the handler runs
BeforeHandler(r) == [r EXCEPT !.StatusCode = StatusOK]

\* a dispatcher that trusts the status the handler left
AfterHandlerAsLeft(r, e) == r

\* if err := handler(ctx, req, res); err != nil { if res.StatusCode < 400 {...} }
AfterHandler(r, e) ==
    IF e # ErrNil /\ r.StatusCode < 400
    THEN [r EXCEPT !.StatusCode = StatusInternalServerError]
    ELSE r


(***************************************************************************)
(* Bounds and the inputs of the model.                                     *)
(***************************************************************************)
\* the most SendHeader / SetHeader / SetTrailer calls of one streaming handler
MaxMetaOps == 2

\* the most SendMsg / RecvMsg calls of one streaming handler
MaxMsgOps == 2

\* "record missing"
MsgRecordMissing == <<114, 101, 99, 111, 114, 100, 32, 109, 105, 115, 115, 105, 110, 103>>
\* "denied"
MsgDenied == <<100, 101, 110, 105, 101, 100>>
\* "boom"
TxtBoom == <<98, 111, 111, 109>>
\* "int"
TxtInt == <<105, 110, 116>>

\* Msg{value: "abc"}, serialized "\x0a\x03abc"
MsgAbc == [value |-> <<97, 98, 99>>, unknown |-> <<>>]
\* Msg{value: "a"} with an unknown field 2 (varint 1) kept from parsing
MsgUnknownField == [value |-> <<97>>, unknown |-> <<16, 1>>]
\* Msg{value: "\xff"}: no valid UTF-8, proto.Marshal refuses it
MsgInvalidUTF8 == [value |-> <<255>>, unknown |-> <<>>]

\* Msg{value: "~?"}, serialized "\x0a\x02~?", base64 "CgJ+Pw"
MsgTilde == [value |-> <<126, 63>>, unknown |-> <<>>]

Messages == {EmptyMsg, MsgAbc, MsgTilde, MsgUnknownField, MsgInvalidUTF8}

\* request bodies with their base64 flag
Envelopes ==
    { [body |-> <<67, 103, 78, 104, 89, 109, 77>>, b64 |-> TRUE],   \* "CgNhYmM" = base64("\x0a\x03abc")
      [body |-> <<10, 1, 97, 16, 1>>, b64 |-> FALSE],               \* raw "\x0a\x01a\x10\x01"
      [body |-> <<>>, b64 |-> FALSE],                               \* empty
      [body |-> <<67, 103, 78, 104, 89>>, b64 |-> TRUE],            \* "CgNhY": no base64
      [body |-> <<67, 103, 78, 104>>, b64 |-> TRUE] }               \* "CgNh" = base64("\x0a\x03a"): cut short

Background == [incoming |-> NoMD, outgoing |-> NoMD]

\* a context the caller of HandleLambda put outgoing metadata into
WithOutgoing == [incoming |-> NoMD, outgoing |-> SomeMD([k \in {"k1"} |-> <<"x">>])]

Event(c, path, hdr, mvh, env) ==
    [ctx |-> c,
     req |-> [Path |-> path, Headers |-> hdr, MultiValueHeaders |-> mvh,
              Body |-> env.body, IsBase64Encoded |-> env.b64]]

EnvAbc == [body |-> <<67, 103, 78, 104, 89, 109, 77>>, b64 |-> TRUE]

EnvEmpty == [body |-> <<>>, b64 |-> FALSE]

Events ==
    { Event(Background, "/svc/Echo", EmptyMD, EmptyMD, e) : e \in Envelopes }
    \cup { Event(Background, "/svc/Watch", EmptyMD, EmptyMD, e) :
              e \in {EnvAbc, [body |-> <<67, 103, 78, 104, 89>>, b64 |-> TRUE]} }
    \cup { Event(WithOutgoing, "/svc/Echo", [k \in {"K1"} |-> "a"],
                 [k \in {"K1"} |-> <<"b", "c">>], EnvAbc),
           Event(WithOutgoing, "/svc/Tail", [k \in {"K1"} |-> "a"], EmptyMD, EnvEmpty),
           Event(Background, "/svc/Get", EmptyMD, EmptyMD, EnvAbc),
           Event(Background, "/svc/Chat", EmptyMD, EmptyMD, EnvAbc),
           Event(Background, "/svc/Missing", EmptyMD, EmptyMD, EnvAbc),
           Event(Background, "/custom", EmptyMD, EmptyMD, EnvAbc) }

\* the service description given to RegisterGRPCService
Desc ==
    [ServiceName |-> "svc",
     Methods |-> << [MethodName |-> "Echo"], [MethodName |-> "Get"] >>,
     Streams |-> << [StreamName |-> "Watch", ServerStreams |-> TRUE, ClientStreams |-> FALSE],
                    [StreamName |-> "Chat", ServerStreams |-> TRUE, ClientStreams |-> TRUE],
                    [StreamName |-> "Upload", ServerStreams |-> FALSE, ClientStreams |-> TRUE],
                    [StreamName |-> "Tail", ServerStreams |-> TRUE, ClientStreams |-> FALSE] >>]

Codes == CodeCanceled .. CodeUnauthenticated

StatusErrors ==
    { StatusErr(c, MsgRecordMissing) : c \in Codes }
    \cup { StatusErr(CodeNotFound, <<>>), StatusErr(CodePermissionDenied, MsgDenied) }

HandlerErrors == StatusErrors \cup {PlainErr(TxtBoom)}

\* what c.Matcher returns besides a key: a not-found status, other statuses, a plain error
MatcherErrors ==
    { StatusErr(CodeNotFound, MsgRecordMissing), StatusErr(CodeInternal, MsgDenied),
      StatusErr(CodeUnknown, <<>>), PlainErr(TxtBoom) }

\* c.Matcher(ctx, proxyReq) when it matches: the key of the request's path, as
\* MakeUrlPathMatcher("") gives it for a path without a trailing slash
Matcher(rq) == [key |-> rq.Path, err |-> ErrNil]

\* the metadata a streaming handler passes, or a method attaches
MDs == { [k \in {"k1"} |-> <<"a">>], [k \in {"k1", "k2"} |-> IF k = "k1" THEN <<"b">> ELSE <<"c">>] }

Impl(n, echo, out, e, attached) ==
    [n |-> n, echo |-> echo, out |-> out, err |-> e, attached |-> attached]

\* behaviours of a unary method's implementation
Impls ==
    { Impl(2, TRUE, NilValue, ErrNil, a) : a \in {EmptyMD} \cup MDs }
    \cup { Impl(2, FALSE, v, ErrNil, EmptyMD) :
              v \in {NilValue, OtherValue} \cup { MsgValue(m) : m \in Messages } }
    \cup { Impl(2, FALSE, NilValue, e, EmptyMD) : e \in HandlerErrors \cup {NonError(TxtInt)} }
    \cup { Impl(2, FALSE, NilValue, StatusErr(CodeNotFound, MsgRecordMissing), a) : a \in MDs }
    \cup { Impl(2, FALSE, MsgValue(MsgAbc), StatusErr(CodeAborted, MsgDenied), EmptyMD) }
    \cup { Impl(n, FALSE, NilValue, ErrNil, EmptyMD) : n \in {1, 3} }

\* behaviours of a handler given to RegisterHandler: whether it sets the status
\* and to what, and the error it returns
CustomOutcomes ==
    { [set |-> TRUE, status |-> s, err |-> e] :
        s \in {StatusProcessing, StatusNotFound, StatusServiceUnavailable},
        e \in {ErrNil, PlainErr(TxtBoom)} }
    \cup { [set |-> FALSE, status |-> 0, err |-> e] : e \in {ErrNil, PlainErr(TxtBoom)} }

\* a handler given to RegisterHandler, behaving as o, run on the response r
CustomHandler(r, o) ==
    [res |-> IF o.set THEN [r EXCEPT !.StatusCode = o.status] ELSE r, err |-> o.err]


(***************************************************************************)
(* State.                                                                  *)
(***************************************************************************)
VARIABLES
    handlers,             \* c.handlers
    loopVarPerIteration,  \* the build: is a range loop's variable one per iteration?
    pc,                   \* "init": nothing handled yet; "idle": between two invocations;
                          \* "stream": a streaming handler is running;
                          \* "done": HandleLambda returned; "panic": it panicked
    ctx,                  \* HandleLambda's ctx
    req,                  \* HandleLambda's proxyReq
    match,                \* what c.Matcher returned
    res,                  \* the Response of the invocation
    stream,               \* the grpcServerStream's ctx and the stream Handler running
    ret,                  \* what HandleLambda returned
    hret,                 \* the handler invoked and what it returned
    calls,                \* the calls of service implementations in this invocation
    mdLog,                \* the metadata passed to the stream, in call order
    nMsg,                 \* the number of SendMsg / RecvMsg calls so far
    sent,                 \* the message the stream's last operation put into res, if
                          \* that was a SendMsg of a message that MarshalProtobuf took
    hist,                 \* what the SendMsg / RecvMsg calls of the stream were given
                          \* and what they returned, as far as it matters later
    heap,                 \* concurrent invocations: the Response and grpcServerStream
                          \* objects allocated so far, by address
    inv                   \* concurrent invocations: the locals of each HandleLambda call

vars == <<handlers, loopVarPerIteration, pc, ctx, req, match, res, stream, ret, hret,
          calls, mdLog, nMsg, sent, hist, heap, inv>>

\* the state of one invocation at a time
seqVars == <<pc, ctx, req, match, res, stream, ret, hret, calls, mdLog, nMsg, sent, hist>>

\* the state of the invocations that run concurrently
concVars == <<heap, inv>>


NoResult == [any |-> FALSE, msg |-> EmptyMsg, err |-> ErrNil]

\* recvFailed, sendFailed: a RecvMsg, a SendMsg of the stream returned an error;
\* lastSend: the value the last SendMsg was given;
\* firstRecv, lastRecv: the message and the error of the first and the last RecvMsg
NoHist ==
    [recvFailed |-> FALSE, sendFailed |-> FALSE,
     lastSend |-> [any |-> FALSE, value |-> NilValue],
     firstRecv |-> NoResult, lastRecv |-> NoResult]

\* hist after a RecvMsg that returned r
Received(h, r) ==
    [h EXCEPT !.recvFailed = @ \/ r.err # ErrNil,
              !.firstRecv = IF @.any THEN @ ELSE [any |-> TRUE, msg |-> r.msg, err |-> r.err],
              !.lastRecv = [any |-> TRUE, msg |-> r.msg, err |-> r.err]]

\* hist after a SendMsg(m) that returned e
Sending(h, m, e) ==
    [h EXCEPT !.sendFailed = @ \/ e # ErrNil,
              !.lastSend = [any |-> TRUE, value |-> m]]

NoSent == [ok |-> FALSE, msg |-> EmptyMsg, over |-> FALSE]

\* over: the response held a base64 body when MarshalProtobuf wrote to it
Sent(m, before) ==
    [ok |-> TRUE, msg |-> m, over |-> before.IsBase64Encoded /\ Len(before.Body) > 0]

NoRequest ==
    [Path |-> "", Headers |-> EmptyMD, MultiValueHeaders |-> EmptyMD,
     Body |-> <<>>, IsBase64Encoded |-> FALSE]

NoMatch == [key |-> "", err |-> ErrNil]

NoStream == [ctx |-> Background, name |-> ""]

NotReturned == [returned |-> FALSE, err |-> ErrNil]

\* return res.APIGatewayProxyResponse, nil
Returned == [returned |-> TRUE, err |-> ErrNil]

NoHandlerRun == [ran |-> FALSE, kind |-> "", err |-> ErrNil, status |-> 0]

HandlerRun(kind, e, status) == [ran |-> TRUE, kind |-> kind, err |-> e, status |-> status]

\* the HandleLambda calls that run concurrently
Invs == {1, 2}

\* the locals of a HandleLambda call that has not started: res and stream are
\* addresses in heap (0: none); impl, ops and err are what the method or the
\* streaming handler of the call does; out is the response the call returned
NoInvocation ==
    [pc |-> "new", ctx |-> Background, req |-> NoRequest, key |-> "", res |-> 0,
     stream |-> 0, impl |-> Impl(2, TRUE, NilValue, ErrNil, EmptyMD), ops |-> <<>>,
     err |-> ErrNil, out |-> InitialResponse]

\* a Response in the heap
ResponseObject(r) == [type |-> "Response", val |-> r, ctx |-> Background, res |-> 0]

\* a grpcServerStream in the heap: its ctx and the address of its res
StreamObject(g) == [type |-> "grpcServerStream", val |-> InitialResponse, ctx |-> g.ctx, res |-> g.res]

\* a controller that keeps one Response and hands it to every call
NewResponseShared(h, r) ==
    IF \E a \in 1..Len(h) : h[a].type = "Response"
    THEN LET a == CHOOSE a \in 1..Len(h) : h[a].type = "Response"
         IN  [heap |-> [h EXCEPT ![a] = ResponseObject(r)], addr |-> a]
    ELSE [heap |-> Append(h, ResponseObject(r)), addr |-> Len(h) + 1]

\* res := &Response{...}: a new object, at an address of its own
NewResponse(h, r) == [heap |-> Append(h, ResponseObject(r)), addr |-> Len(h) + 1]

\* &grpcServerStream{...}: a new object, at an address of its own
NewStream(h, g) == [heap |-> Append(h, StreamObject(g)), addr |-> Len(h) + 1]

\* func NewController()
Init ==
    /\ handlers = NoHandlers
    /\ loopVarPerIteration \in BOOLEAN
    /\ pc = "init"
    /\ ctx = Background
    /\ req = NoRequest
    /\ match = NoMatch
    /\ res = InitialResponse
    /\ stream = NoStream
    /\ ret = NotReturned
    /\ hret = NoHandlerRun
    /\ calls = <<>>
    /\ mdLog = <<>>
    /\ nMsg = 0
    /\ sent = NoSent
    /\ hist = NoHist
    /\ heap = <<>>
    /\ inv = [i \in Invs |-> NoInvocation]

\* RegisterGRPCService(Desc, svc), before the first invocation
RegisterGRPCService ==
    /\ pc = "init"
    /\ handlers' = RegisterGRPCServiceOn(handlers, Desc, loopVarPerIteration)
    /\ UNCHANGED <<loopVarPerIteration, pc, ctx, req, match, res, stream, ret, hret,
                   calls, mdLog, nMsg, sent, hist>>
    /\ UNCHANGED concVars

\* RegisterHandler("/custom", handler), before the first invocation
RegisterCustomHandler ==
    /\ pc = "init"
    /\ handlers' = RegisterHandler(handlers, "/custom", [kind |-> "custom", name |-> "custom"])
    /\ UNCHANGED <<loopVarPerIteration, pc, ctx, req, match, res, stream, ret, hret,
                   calls, mdLog, nMsg, sent, hist>>
    /\ UNCHANGED concVars

\* no invocation is running
Idle == pc \in {"init", "idle"}

\* the host calls HandleLambda with the next event: nothing of the invocation
\* before is kept but the controller
NextInvocation ==
    /\ pc = "done"
    /\ pc' = "idle"
    /\ ctx' = Background
    /\ req' = NoRequest
    /\ match' = NoMatch
    /\ res' = InitialResponse
    /\ stream' = NoStream
    /\ ret' = NotReturned
    /\ hret' = NoHandlerRun
    /\ calls' = <<>>
    /\ mdLog' = <<>>
    /\ nMsg' = 0
    /\ sent' = NoSent
    /\ hist' = NoHist
    /\ UNCHANGED <<handlers, loopVarPerIteration>>
    /\ UNCHANGED concVars

\* HandleLambda when c.Matcher fails
HandleLambdaMatchError ==
    /\ Idle
    /\ \E ev \in Events, e \in MatcherErrors :
        /\ ctx' = ev.ctx
        /\ req' = ev.req
        /\ match' = [key |-> "", err |-> e]
        /\ res' = MatchFailure(InitialResponse, e)
    /\ pc' = "done"
    /\ ret' = Returned
    /\ hret' = NoHandlerRun
    /\ stream' = NoStream
    /\ calls' = <<>>
    /\ mdLog' = <<>>
    /\ nMsg' = 0
    /\ sent' = NoSent
    /\ hist' = NoHist
    /\ UNCHANGED <<handlers, loopVarPerIteration>>
    /\ UNCHANGED concVars

\* HandleLambda when no handler is registered for the key
HandleLambdaNoHandler ==
    /\ Idle
    /\ \E ev \in Events :
        /\ Matcher(ev.req).key \notin DOMAIN handlers
        /\ ctx' = ev.ctx
        /\ req' = ev.req
        /\ match' = Matcher(ev.req)
    /\ res' = InitialResponse
    /\ pc' = "done"
    /\ ret' = Returned
    /\ hret' = NoHandlerRun
    /\ stream' = NoStream
    /\ calls' = <<>>
    /\ mdLog' = <<>>
    /\ nMsg' = 0
    /\ sent' = NoSent
    /\ hist' = NoHist
    /\ UNCHANGED <<handlers, loopVarPerIteration>>
    /\ UNCHANGED concVars

\* the end of HandleLambda once the unary handler ended as h
unaryDone(h) ==
    /\ calls' = h.calls
    /\ IF h.panic
       THEN /\ pc' = "panic"
            /\ res' = h.res
            /\ ret' = NotReturned
            /\ hret' = NoHandlerRun
       ELSE /\ pc' = "done"
            /\ res' = AfterHandler(h.res, h.err)
            /\ ret' = Returned
            /\ hret' = HandlerRun("unary", h.err, h.res.StatusCode)

\* HandleLambda when the key's handler is one RegisterGRPCService built for a
\* unary method
HandleLambdaUnary ==
    /\ Idle
    /\ \E ev \in Events, impl \in Impls :
        /\ Matcher(ev.req).key \in DOMAIN handlers
        /\ handlers[Matcher(ev.req).key].kind = "unary"
        /\ ctx' = ev.ctx
        /\ req' = ev.req
        /\ match' = Matcher(ev.req)
        /\ unaryDone(UnaryHandler(ev.ctx, ev.req, BeforeHandler(InitialResponse),
                                  handlers[Matcher(ev.req).key].name, impl))
    /\ stream' = NoStream
    /\ mdLog' = <<>>
    /\ nMsg' = 0
    /\ sent' = NoSent
    /\ hist' = NoHist
    /\ UNCHANGED <<handlers, loopVarPerIteration>>
    /\ UNCHANGED concVars

\* the end of HandleLambda once the handler given to RegisterHandler ended as h
customDone(h) ==
    /\ res' = AfterHandler(h.res, h.err)
    /\ hret' = HandlerRun("custom", h.err, h.res.StatusCode)

\* HandleLambda when the key's handler is one given to RegisterHandler
HandleLambdaCustom ==
    /\ Idle
    /\ \E ev \in Events, o \in CustomOutcomes :
        LET key == Matcher(ev.req).key
        IN  /\ key \in DOMAIN handlers
            /\ handlers[key].kind = "custom"
            /\ ctx' = ev.ctx
            /\ req' = ev.req
            /\ match' = Matcher(ev.req)
            /\ customDone(CustomHandler(BeforeHandler(InitialResponse), o))
    /\ pc' = "done"
    /\ ret' = Returned
    /\ stream' = NoStream
    /\ calls' = <<>>
    /\ mdLog' = <<>>
    /\ nMsg' = 0
    /\ sent' = NoSent
    /\ hist' = NoHist
    /\ UNCHANGED <<handlers, loopVarPerIteration>>
    /\ UNCHANGED concVars

\* the stream handler up to the call of stream.Handler, g being serverStream
streamStarted(g, name) ==
    /\ stream' = [ctx |-> g.ctx, name |-> name]
    /\ res' = g.res
    /\ calls' = <<[impl |-> name, input |-> EmptyMsg, ctx |-> g.ctx,
                    result |-> [n |-> 0, out |-> NilValue, err |-> ErrNil]]>>

\* HandleLambda when the key's handler is one RegisterGRPCService built for a
\* server-streaming method, up to the call of stream.Handler(svc, serverStream)
HandleLambdaStream ==
    /\ Idle
    /\ \E ev \in Events :
        /\ Matcher(ev.req).key \in DOMAIN handlers
        /\ handlers[Matcher(ev.req).key].kind = "stream"
        /\ ctx' = ev.ctx
        /\ req' = ev.req
        /\ match' = Matcher(ev.req)
        /\ streamStarted(newGrpcServerStream(CallContext(ev.ctx, ev.req),
                                             BeforeHandler(InitialResponse)),
                         handlers[Matcher(ev.req).key].name)
    /\ pc' = "stream"
    /\ ret' = NotReturned
    /\ hret' = NoHandlerRun
    /\ mdLog' = <<>>
    /\ nMsg' = 0
    /\ sent' = NoSent
    /\ hist' = NoHist
    /\ UNCHANGED <<handlers, loopVarPerIteration>>
    /\ UNCHANGED concVars

\* the stream of the running streaming handler
G == [ctx |-> stream.ctx, res |-> res]

\* the stream and the response after an operation of the stream gave g
streamUpdated(g) ==
    /\ res' = g.res
    /\ stream' = [stream EXCEPT !.ctx = g.ctx]

\* the streaming handler calls stream.RecvMsg(m)
StreamRecvMsg ==
    /\ pc = "stream"
    /\ nMsg < MaxMsgOps
    /\ streamUpdated(RecvMsg(G, req).g)
    /\ nMsg' = nMsg + 1
    /\ sent' = NoSent
    /\ hist' = Received(hist, RecvMsg(G, req))
    /\ UNCHANGED <<handlers, loopVarPerIteration, pc, ctx, req, match, ret, hret, calls, mdLog>>
    /\ UNCHANGED concVars

\* the streaming handler calls stream.SendMsg(m)
StreamSendMsg ==
    /\ pc = "stream"
    /\ nMsg < MaxMsgOps
    /\ \E m \in {NilValue} \cup { MsgValue(x) : x \in Messages } :
        /\ streamUpdated(SendMsg(G, m).g)
        /\ sent' = IF m.kind = "msg" /\ Marshal(m.msg).err = ErrNil
                   THEN Sent(m.msg, res) ELSE NoSent
        /\ hist' = Sending(hist, m, SendMsg(G, m).err)
    /\ nMsg' = nMsg + 1
    /\ UNCHANGED <<handlers, loopVarPerIteration, pc, ctx, req, match, ret, hret, calls, mdLog>>
    /\ UNCHANGED concVars

\* the streaming handler calls stream.SendHeader(md)
StreamSendHeader ==
    /\ pc = "stream"
    /\ Len(mdLog) < MaxMetaOps
    /\ \E md \in MDs :
        /\ streamUpdated(SendHeader(G, md))
        /\ mdLog' = Append(mdLog, md)
    /\ UNCHANGED <<handlers, loopVarPerIteration, pc, ctx, req, match, ret, hret, calls,
                   nMsg, sent, hist>>
    /\ UNCHANGED concVars

\* the streaming handler calls stream.SetHeader(md)
StreamSetHeader ==
    /\ pc = "stream"
    /\ Len(mdLog) < MaxMetaOps
    /\ \E md \in MDs :
        /\ streamUpdated(SetHeader(G, md))
        /\ mdLog' = Append(mdLog, md)
    /\ UNCHANGED <<handlers, loopVarPerIteration, pc, ctx, req, match, ret, hret, calls,
                   nMsg, sent, hist>>
    /\ UNCHANGED concVars

\* the streaming handler calls stream.SetTrailer(md)
StreamSetTrailer ==
    /\ pc = "stream"
    /\ Len(mdLog) < MaxMetaOps
    /\ \E md \in MDs :
        /\ streamUpdated(SetTrailer(G, md))
        /\ mdLog' = Append(mdLog, md)
    /\ UNCHANGED <<handlers, loopVarPerIteration, pc, ctx, req, match, ret, hret, calls,
                   nMsg, sent, hist>>
    /\ UNCHANGED concVars

\* the end of HandleLambda once the stream handler ended as h
streamDone(h) ==
    /\ res' = AfterHandler(h.res, h.err)
    /\ hret' = HandlerRun("stream", h.err, h.res.StatusCode)

\* stream.Handler returns e; the registered handler and HandleLambda finish
StreamReturn ==
    /\ pc = "stream"
    /\ \E e \in {ErrNil} \cup HandlerErrors :
        /\ streamDone(StreamHandlerEnd(G, e))
        /\ calls' = [calls EXCEPT ![1].result.err = e]
    /\ pc' = "done"
    /\ ret' = Returned
    /\ sent' = NoSent
    /\ UNCHANGED <<handlers, loopVarPerIteration, ctx, req, match, stream, mdLog, nMsg, hist>>
    /\ UNCHANGED concVars

Next ==
    \/ RegisterGRPCService
    \/ RegisterCustomHandler
    \/ HandleLambdaMatchError
    \/ HandleLambdaNoHandler
    \/ HandleLambdaUnary
    \/ HandleLambdaCustom
    \/ HandleLambdaStream
    \/ StreamRecvMsg
    \/ StreamSendMsg
    \/ StreamSendHeader
    \/ StreamSetHeader
    \/ StreamSetTrailer
    \/ StreamReturn
    \/ NextInvocation

Spec == Init /\ [][Next]_vars

(***************************************************************************)
(* Concurrent invocations.  After the registrations, the host calls        *)
(* HandleLambda from several goroutines; the steps of the calls            *)
(* interleave.  What a call allocates (its Response, its grpcServerStream) *)
(* lives in heap; its context values are immutable and local.              *)
(***************************************************************************)
\* the most operations of one streaming handler on its stream
MaxConcOps == 2

\* the events of the concurrent invocations
ConcEvents ==
    { Event(Background, "/svc/Echo", EmptyMD, EmptyMD, EnvAbc),
      Event(WithOutgoing, "/svc/Watch", [k \in {"K1"} |-> "a"], EmptyMD,
            [body |-> <<67, 103, 78, 104, 89>>, b64 |-> TRUE]),
      Event(Background, "/svc/Missing", EmptyMD, EmptyMD, EnvAbc) }

\* the behaviours of the unary methods in the concurrent invocations
ConcImpls ==
    { Impl(2, TRUE, NilValue, ErrNil, EmptyMD),
      Impl(2, FALSE, NilValue, StatusErr(CodeNotFound, MsgRecordMissing), EmptyMD) }

\* the operations of the streaming handlers on their stream
ConcOps ==
    { [kind |-> "recv", m |-> NilValue, md |-> EmptyMD],
      [kind |-> "send", m |-> MsgValue(MsgAbc), md |-> EmptyMD],
      [kind |-> "trailer", m |-> NilValue, md |-> [k \in {"k1"} |-> <<"a">>]] }

\* what the streaming handlers return
ConcErrors == {ErrNil, StatusErr(CodeUnavailable, MsgDenied)}

\* op on the stream g of a call with the request rq
ApplyOp(g, op, rq) ==
    CASE op.kind = "recv" -> RecvMsg(g, rq).g
      [] op.kind = "send" -> SendMsg(g, op.m).g
      [] op.kind = "trailer" -> SetTrailer(g, op.md)

\* the grpcServerStream at address s, with the Response its res points to
StreamAt(h, s) == [ctx |-> h[s].ctx, res |-> h[h[s].res].val]

\* the heap once the stream at address s and its Response are as in g
StreamWritten(h, s, g) ==
    [h EXCEPT ![s].ctx = g.ctx, ![h[s].res].val = g.res]

\* the registrations are over: the registry HandleLambda reads
Registry(perIteration) == RegisterGRPCServiceOn(NoHandlers, Desc, perIteration)

ConcInit ==
    /\ loopVarPerIteration \in BOOLEAN
    /\ handlers = Registry(loopVarPerIteration)
    /\ pc = "idle"
    /\ ctx = Background
    /\ req = NoRequest
    /\ match = NoMatch
    /\ res = InitialResponse
    /\ stream = NoStream
    /\ ret = NotReturned
    /\ hret = NoHandlerRun
    /\ calls = <<>>
    /\ mdLog = <<>>
    /\ nMsg = 0
    /\ sent = NoSent
    /\ hist = NoHist
    /\ heap = <<>>
    /\ inv = [i \in Invs |-> NoInvocation]

\* HandleLambda of call i up to `handler, ok := c.handlers[key]`, allocated
\* being its new Response: a miss returns it, a hit sets StatusOK
concStarted(i, ev, allocated) ==
    /\ heap' = IF Matcher(ev.req).key \in DOMAIN handlers
               THEN [allocated.heap EXCEPT ![allocated.addr].val = BeforeHandler(@)]
               ELSE allocated.heap
    /\ inv' = [inv EXCEPT ![i].ctx = ev.ctx,
                          ![i].req = ev.req,
                          ![i].key = Matcher(ev.req).key,
                          ![i].res = allocated.addr,
                          ![i].pc = IF Matcher(ev.req).key \in DOMAIN handlers
                                    THEN "handler" ELSE "done",
                          ![i].out = allocated.heap[allocated.addr].val]

\* call i enters HandleLambda
ConcHandleLambda(i) ==
    /\ inv[i].pc = "new"
    /\ \E ev \in ConcEvents : concStarted(i, ev, NewResponse(heap, InitialResponse))
    /\ UNCHANGED <<handlers, loopVarPerIteration, seqVars>>

\* the unary handler of call i ended as h, and HandleLambda returns
concUnaryDone(i, impl, h) ==
    /\ heap' = [heap EXCEPT ![inv[i].res].val = AfterHandler(h.res, h.err)]
    /\ inv' = [inv EXCEPT ![i].pc = "done",
                          ![i].impl = impl,
                          ![i].out = AfterHandler(h.res, h.err)]

\* call i runs the handler of a unary method
ConcUnary(i) ==
    /\ inv[i].pc = "handler"
    /\ handlers[inv[i].key].kind = "unary"
    /\ \E impl \in ConcImpls :
        concUnaryDone(i, impl, UnaryHandler(inv[i].ctx, inv[i].req, heap[inv[i].res].val,
                                            handlers[inv[i].key].name, impl))
    /\ UNCHANGED <<handlers, loopVarPerIteration, seqVars>>

\* the stream handler of call i made its grpcServerStream
concStreamMade(i, allocated) ==
    /\ heap' = allocated.heap
    /\ inv' = [inv EXCEPT ![i].pc = "stream", ![i].stream = allocated.addr]

\* call i runs the handler of a server-streaming method, up to the call of
\* stream.Handler(svc, serverStream)
ConcStream(i) ==
    /\ inv[i].pc = "handler"
    /\ handlers[inv[i].key].kind = "stream"
    /\ concStreamMade(i, NewStream(heap, [ctx |-> CallContext(inv[i].ctx, inv[i].req),
                                          res |-> inv[i].res]))
    /\ UNCHANGED <<handlers, loopVarPerIteration, seqVars>>

\* the streaming handler of call i calls RecvMsg, SendMsg or SetTrailer
ConcStreamOp(i) ==
    /\ inv[i].pc = "stream"
    /\ Len(inv[i].ops) < MaxConcOps
    /\ \E op \in ConcOps :
        /\ heap' = StreamWritten(heap, inv[i].stream,
                                 ApplyOp(StreamAt(heap, inv[i].stream), op, inv[i].req))
        /\ inv' = [inv EXCEPT ![i].ops = Append(@, op)]
    /\ UNCHANGED <<handlers, loopVarPerIteration, seqVars>>

\* the stream handler of call i ended as h, and HandleLambda returns
concStreamDone(i, e, h) ==
    /\ heap' = [heap EXCEPT ![inv[i].res].val = AfterHandler(h.res, h.err)]
    /\ inv' = [inv EXCEPT ![i].pc = "done",
                          ![i].err = e,
                          ![i].out = AfterHandler(h.res, h.err)]

\* the streaming handler of call i returns e
ConcStreamReturn(i) ==
    /\ inv[i].pc = "stream"
    /\ \E e \in ConcErrors :
        concStreamDone(i, e, StreamHandlerEnd(StreamAt(heap, inv[i].stream), e))
    /\ UNCHANGED <<handlers, loopVarPerIteration, seqVars>>

ConcNext ==
    \/ \E i \in Invs : ConcHandleLambda(i)
    \/ \E i \in Invs : ConcUnary(i)
    \/ \E i \in Invs : ConcStream(i)
    \/ \E i \in Invs : ConcStreamOp(i)
    \/ \E i \in Invs : ConcStreamReturn(i)

ConcSpec == ConcInit /\ [][ConcNext]_vars


(***************************************************************************)
(* Properties.                                                             *)
(***************************************************************************)
Done == pc = "done"

\* C1: every invocation that was started returns, and returns a response with a
\* nil error: HandleLambda never ends any other way (such as a panic), whatever
\* the matcher or the handler did.
C1_AlwaysReturnsResponse ==
    /\ pc # "panic"
    /\ Done => ret = Returned

\* C2: when the matcher succeeds with a key that has no registered handler, the
\* response is status 404 with an empty body, base64 flag false and no headers,
\* and no handler was invoked.
C2_UnregisteredKeyNotFound ==
    (Done /\ match.err = ErrNil /\ match.key \notin DOMAIN handlers)
        => /\ res.StatusCode = 404
           /\ res.Body = <<>>
           /\ res.IsBase64Encoded = FALSE
           /\ res.MultiValueHeaders = EmptyMD
           /\ ~hret.ran
           /\ calls = <<>>
           /\ ret = Returned

\* an invocation for a key nobody registered, on a controller that has handlers
C2_Witness ==
    /\ Done
    /\ match.err = ErrNil
    /\ match.key = "/svc/Missing"
    /\ "/svc/Echo" \in DOMAIN handlers
    /\ res.StatusCode = 404

\* C3: when the matcher fails, no handler is invoked; a failure carrying status
\* code NotFound leaves the response at 404 with an empty body, any other
\* failure gives status 500.
C3_MatcherFailure ==
    (Done /\ match.err # ErrNil)
        => /\ ~hret.ran
           /\ calls = <<>>
           /\ ret = Returned
           /\ IF match.err.kind = "status" /\ match.err.code = 5
              THEN /\ res.StatusCode = 404
                   /\ res.Body = <<>>
                   /\ res.IsBase64Encoded = FALSE
                   /\ res.MultiValueHeaders = EmptyMD
              ELSE res.StatusCode = 500

\* the matcher failed with a NotFound status on a path that has a handler
C3_Witness ==
    /\ Done
    /\ match.err = StatusErr(CodeNotFound, MsgRecordMissing)
    /\ req.Path \in DOMAIN handlers
    /\ res.StatusCode = 404

\* C4: the status is 200 when the handler of a registered key starts; when the
\* handler returns an error the final status is at least 400: 500 if the
\* handler left a status below 400, otherwise the status the handler left; when
\* it returns no error the final status is the one it left.
C4_HandlerStatus ==
    /\ (pc = "stream" /\ nMsg = 0) => res.StatusCode = 200
    /\ (Done /\ hret.ran)
        => IF hret.err # ErrNil
           THEN /\ res.StatusCode >= 400
                /\ res.StatusCode = (IF hret.status < 400 THEN 500 ELSE hret.status)
           ELSE res.StatusCode = hret.status

\* a handler left status 102 and returned an error: the final status is 500
C4_Witness ==
    /\ Done
    /\ hret.ran
    /\ hret.err # ErrNil
    /\ hret.status = 102
    /\ res.StatusCode = 500

\* unpadded standard base64 of the serialization of the model's messages:
\* "" for the empty message, "CgNhYmM", "CgJ+Pw" and "CgFhEAE" for the others
ExpectedBody(m) ==
    CASE m = EmptyMsg -> <<>>
      [] m = MsgAbc -> <<67, 103, 78, 104, 89, 109, 77>>
      [] m = MsgTilde -> <<67, 103, 74, 43, 80, 119>>
      [] m = MsgUnknownField -> <<67, 103, 70, 104, 69, 65, 69>>

\* the call of a unary method returned (output m, no error), m serializable
ReturnedMessage(call) ==
    /\ call.result.n = 2
    /\ call.result.err = ErrNil
    /\ call.result.out.kind = "msg"
    /\ call.result.out.msg \in Messages \ {MsgInvalidUTF8}

\* C5: a unary invocation whose request body decodes invokes the method exactly
\* once, with the decoded input; when the method returns (m, no error) the final
\* response has status 200, the unpadded base64 of the serialized m as its body
\* with the flag true when that serialization is non-empty, and an empty body
\* with the flag false otherwise; an echo of a base64 request returns its body.
C5_UnarySuccess ==
    (Done /\ hret.kind = "unary" /\ UnmarshalProtobuf(req).err = ErrNil)
        => /\ Len(calls) = 1
           /\ calls[1].impl = handlers[match.key].name
           /\ calls[1].input = UnmarshalProtobuf(req).msg
           /\ ReturnedMessage(calls[1])
                => /\ hret.err = ErrNil
                   /\ res.StatusCode = 200
                   /\ res.Body = ExpectedBody(calls[1].result.out.msg)
                   /\ res.IsBase64Encoded = (res.Body # <<>>)
                   /\ (calls[1].result.out.msg = calls[1].input /\ req.IsBase64Encoded)
                        => res.Body = req.Body

\* the scenario: Echo called with base64("\x0a\x03abc") returns that body, status 200
C5_Witness ==
    /\ Done
    /\ hret.kind = "unary"
    /\ req.Path = "/svc/Echo"
    /\ req.Body = <<67, 103, 78, 104, 89, 109, 77>>
    /\ req.IsBase64Encoded
    /\ Len(calls) = 1
    /\ calls[1].input = MsgAbc
    /\ calls[1].result.out = MsgValue(MsgAbc)
    /\ calls[1].result.err = ErrNil
    /\ res.StatusCode = 200
    /\ res.Body = req.Body
    /\ res.IsBase64Encoded

\* the table of domain status codes (codes.Code) and the transport status of each
StatusTable ==
    (3 :> 400) @@ (5 :> 404) @@ (6 :> 409) @@ (7 :> 403) @@ (16 :> 401) @@ (8 :> 429)
    @@ (9 :> 412) @@ (10 :> 409) @@ (11 :> 400) @@ (12 :> 501) @@ (13 :> 500)
    @@ (14 :> 503) @@ (15 :> 500)

\* C6: when a unary method or a streaming handler returns a status error whose
\* code is in the table, the final status is the table's, whatever the status
\* was before, the body is the status message and the base64 flag is false.
C6_StatusTable ==
    (Done /\ hret.ran /\ hret.kind \in {"unary", "stream"}
          /\ hret.err.kind = "status" /\ hret.err.code \in DOMAIN StatusTable)
        => /\ res.StatusCode = StatusTable[hret.err.code]
           /\ res.Body = hret.err.msg
           /\ res.IsBase64Encoded = FALSE

\* the scenario: a streaming handler that sent a message (status 200, a base64
\* body) and then returned not-found "record missing" ends with 404 and that body
C6_Witness ==
    /\ Done
    /\ hret.kind = "stream"
    /\ nMsg > 0
    /\ hret.err = StatusErr(CodeNotFound, MsgRecordMissing)
    /\ res.StatusCode = 404
    /\ res.Body = MsgRecordMissing
    /\ ~res.IsBase64Encoded

\* the response's body and flag taken as a request
AsRequest(r) == [req EXCEPT !.Body = r.Body, !.IsBase64Encoded = r.IsBase64Encoded]

\* C7: the body and base64 flag that MarshalProtobuf(m) produced, taken as a
\* request, decode with UnmarshalProtobuf to a message equal to m, for every
\* non-empty m; MarshalProtobuf of the empty message gives an empty body with
\* the flag false, also on a response that held a base64 body before.
C7_RoundTrip ==
    /\ (pc = "stream" /\ sent.ok)
        => /\ sent.msg # EmptyMsg
                => UnmarshalProtobuf(AsRequest(res)) = [msg |-> sent.msg, err |-> ErrNil]
           /\ sent.msg = EmptyMsg
                => (res.Body = <<>> /\ res.IsBase64Encoded = FALSE)
    /\ (Done /\ hret.kind = "unary" /\ Len(calls) = 1 /\ ReturnedMessage(calls[1]))
        => UnmarshalProtobuf(AsRequest(res))
              = [msg |-> calls[1].result.out.msg, err |-> ErrNil]

\* SendMsg of the empty message on a response that held a base64 body
C7_Witness ==
    /\ pc = "stream"
    /\ sent.ok
    /\ sent.msg = EmptyMsg
    /\ sent.over
    /\ res.Body = <<>>
    /\ ~res.IsBase64Encoded

\* C8: a server-streaming invocation whose streaming handler returned no error
\* ends with status 102, whatever it did on the stream; an invocation whose
\* handler returned an error, and a unary invocation, never end with 102.
C8_ProcessingStatus ==
    /\ (Done /\ hret.kind = "stream" /\ hret.err = ErrNil) => res.StatusCode = 102
    /\ (Done /\ hret.ran /\ (hret.err # ErrNil \/ hret.kind = "unary"))
        => res.StatusCode # 102

\* a streaming handler failed to receive (status 400), sent a message, attached
\* metadata and returned no error: the final status is 102
C8_Witness ==
    /\ Done
    /\ hret.kind = "stream"
    /\ hret.err = ErrNil
    /\ UnmarshalProtobuf(req).err # ErrNil
    /\ nMsg = MaxMsgOps
    /\ Len(mdLog) > 0
    /\ res.StatusCode = 102

\* the values of key k in the metadata of log, in the order of the log
RECURSIVE ValuesOf(_, _)
ValuesOf(log, k) ==
    IF log = <<>> THEN <<>>
    ELSE (IF k \in DOMAIN Head(log) THEN Head(log)[k] ELSE <<>>) \o ValuesOf(Tail(log), k)

\* every key of the log with all its values, in the order of the log
Accumulated(log) ==
    [k \in UNION { DOMAIN log[i] : i \in 1..Len(log) } |-> ValuesOf(log, k)]

\* C9: in a server-streaming invocation the outgoing metadata of the stream, and
\* the multi-valued headers of the final response, hold for every key all the
\* values passed in all the SendHeader / SetHeader / SetTrailer calls, in call
\* order, whichever of the three each call was.
C9_MetadataAccumulates ==
    /\ pc = "stream" => FromOutgoingContext(stream.ctx) = SomeMD(Accumulated(mdLog))
    /\ (Done /\ hret.kind = "stream") => res.MultiValueHeaders = Accumulated(mdLog)

\* two metadata calls gave values for the same key: both are in the headers
C9_Witness ==
    /\ Done
    /\ hret.kind = "stream"
    /\ Len(mdLog) = 2
    /\ mdLog[1]["k1"] = <<"a">>
    /\ mdLog[2]["k1"] = <<"b">>
    /\ res.MultiValueHeaders["k1"] = <<"a", "b">>
    /\ res.MultiValueHeaders["k2"] = <<"c">>

\* C10: in a unary invocation the multi-valued headers of the final response are
\* the outgoing metadata of the call context, as the method left it.
C10_UnaryMirrorsMetadata ==
    (Done /\ hret.kind = "unary" /\ Len(calls) = 1)
        => res.MultiValueHeaders = FromOutgoingContext(calls[1].ctx).md

\* C11: at every moment of an invocation and at its end, the base64 flag of the
\* response is true exactly when the body is a non-empty base64 payload: a
\* response with the flag set has a non-empty body that decodes, and the body a
\* send of a non-empty message wrote carries the flag.
C11_FlagIffPayload ==
    /\ (pc \in {"stream", "done"} /\ res.IsBase64Encoded)
        => (res.Body # <<>> /\ DecodeString(res.Body).err = ErrNil)
    /\ (pc = "stream" /\ sent.ok /\ sent.msg # EmptyMsg) => res.IsBase64Encoded

\* RegisterGRPCService(Desc, svc) has run
ServiceRegistered == RoutingKey(Desc.ServiceName, Desc.Methods[1].MethodName) \in DOMAIN handlers

\* the descriptors of Desc.Streams that are client-streaming or bidirectional
ClientStreams == { i \in 1..Len(Desc.Streams) : Desc.Streams[i].ClientStreams }

\* C12: a client-streaming or bidirectional descriptor is never bound to a
\* handler, and registering a service description that holds one is reported as
\* an error by RegisterGRPCService.
C12_ClientStreamsRejected ==
    ServiceRegistered
        => /\ \A i \in ClientStreams :
                RoutingKey(Desc.ServiceName, Desc.Streams[i].StreamName) \notin DOMAIN handlers
           /\ ClientStreams # {} => RegisterGRPCServiceReport(Desc) # ErrNil

\* convertResultError(before, e) gave the status `status` and the error `back`
\* and left the response with the body and the flag of `after`: the frame of an
\* error that carries a status of no table code, or no status
FrameKept(before, e, status, back, after) ==
    /\ (e.kind = "status" /\ e.code \notin DOMAIN StatusTable)
        => status = before.StatusCode
    /\ e.kind = "plain"
        => /\ status = before.StatusCode
           /\ back = e
           /\ after.Body = before.Body
           /\ after.IsBase64Encoded = before.IsBase64Encoded

\* a step in which a handler ended with convertResultError: the return of a
\* streaming handler, or a unary method that returned two values
ConvertStep ==
    /\ (pc = "stream" /\ pc' = "done")
        => FrameKept(res, calls'[1].result.err, hret'.status, hret'.err, res')
    /\ (pc \in {"init", "idle"} /\ pc' = "done" /\ hret'.kind = "unary"
          /\ Len(calls') = 1 /\ calls'[1].result.n = 2)
        => FrameKept(BeforeHandler(InitialResponse), calls'[1].result.err,
                     hret'.status, hret'.err, res')

\* C13: convertResultError leaves the status as it was when the error carries a
\* status whose code is not in the table or carries no status; in the latter
\* case it returns the error it was given and leaves body and flag as they were.
C13_UnrecognizedKeepsStatus == [][ConvertStep]_vars

\* a streaming handler failed to receive (status 400), sent a message (a base64
\* body) and returned an error without status: status 400, body and flag stay
C13_Witness ==
    /\ Done
    /\ hret.kind = "stream"
    /\ calls[1].result.err = PlainErr(TxtBoom)
    /\ hret.err = PlainErr(TxtBoom)
    /\ hret.status = 400
    /\ res.StatusCode = 400
    /\ res.IsBase64Encoded
    /\ res.Body # <<>>

\* C14: when the second value a unary method returned is no error (here an
\* int), convertResultError sets status 500 and the body "Invalid error type: "
\* followed by the type of the value, and returns an error with that text: the
\* handler ends with an error.
C14_NonErrorValue ==
    (Done /\ hret.kind = "unary" /\ Len(calls) = 1 /\ calls[1].result.n = 2
          /\ calls[1].result.err.kind = "nonerror")
        => /\ res.StatusCode = 500
           /\ res.Body = <<73, 110, 118, 97, 108, 105, 100, 32, 101, 114, 114, 111, 114,
                           32, 116, 121, 112, 101, 58, 32>> \o calls[1].result.err.msg
           /\ hret.err # ErrNil
           /\ hret.err.kind = "plain"
           /\ hret.err.msg = res.Body

\* Echo's method returned (nil, 7): "Invalid error type: int", status 500
C14_Witness ==
    /\ Done
    /\ hret.kind = "unary"
    /\ Len(calls) = 1
    /\ calls[1].result.err = NonError(TxtInt)
    /\ res.StatusCode = 500
    /\ res.Body = <<73, 110, 118, 97, 108, 105, 100, 32, 101, 114, 114, 111, 114, 32,
                    116, 121, 112, 101, 58, 32, 105, 110, 116>>
    /\ hret.err.kind = "plain"

\* C15: a unary invocation whose request body does not decode (no base64 under
\* the flag, or a malformed payload) never calls the method and ends with the
\* status 400 the handler set, and with the body "Failed to unmarshal request: "
\* followed by the text of the decode error, as the error gives it.
C15_DecodeFailure ==
    (Done /\ hret.kind = "unary" /\ UnmarshalProtobuf(req).err # ErrNil)
        => /\ calls = <<>>
           /\ hret.err = UnmarshalProtobuf(req).err
           /\ hret.status = 400
           /\ res.StatusCode = 400
           /\ res.IsBase64Encoded = FALSE
           /\ res.Body = <<70, 97, 105, 108, 101, 100, 32, 116, 111, 32, 117, 110, 109, 97,
                           114, 115, 104, 97, 108, 32, 114, 101, 113, 117, 101, 115, 116,
                           58, 32>> \o UnmarshalProtobuf(req).err.msg

\* Echo called with the body "CgNhY" under the base64 flag: status 400 and
\* "Failed to unmarshal request: illegal base64 data at input byte 4"
C15_Witness ==
    /\ Done
    /\ hret.kind = "unary"
    /\ req.IsBase64Encoded
    /\ req.Body = <<67, 103, 78, 104, 89>>
    /\ calls = <<>>
    /\ res.StatusCode = 400
    /\ res.Body = <<70, 97, 105, 108, 101, 100, 32, 116, 111, 32, 117, 110, 109, 97, 114,
                    115, 104, 97, 108, 32, 114, 101, 113, 117, 101, 115, 116, 58, 32, 105,
                    108, 108, 101, 103, 97, 108, 32, 98, 97, 115, 101, 54, 52, 32, 100, 97,
                    116, 97, 32, 97, 116, 32, 105, 110, 112, 117, 116, 32, 98, 121, 116,
                    101, 32, 52>>

\* C16: a server-streaming invocation in which a RecvMsg failed to decode the
\* request ends with status 400 and the failure text in the body, and one in
\* which a SendMsg failed to encode ends with status 500 and the failure text
\* in the body, whatever the streaming handler did afterwards and returned.
C16_MalformedSurfaced ==
    (Done /\ hret.kind = "stream")
        => /\ (hist.recvFailed /\ ~hist.sendFailed)
                => /\ res.StatusCode = 400
                   /\ res.Body = TxtFailedUnmarshal \o hist.lastRecv.err.msg
           /\ (hist.sendFailed /\ ~hist.recvFailed)
                => /\ res.StatusCode = 500
                   /\ res.Body = TxtFailedMarshal \o TxtProtoUTF8

\* the body and the flag of a response
BodyAndFlag(r) == <<r.Body, r.IsBase64Encoded>>

\* C17: while every SendMsg / RecvMsg of the stream so far succeeded and there
\* was a SendMsg, the body and the flag of the response are those the last
\* SendMsg alone gives on a fresh response; and every RecvMsg gives the message
\* and the error the first one gave.
C17_LastSendOnly ==
    /\ (pc = "stream" /\ hist.lastSend.any /\ ~hist.sendFailed /\ ~hist.recvFailed)
        => BodyAndFlag(res)
             = BodyAndFlag(SendMsg(newGrpcServerStream(stream.ctx,
                                                       BeforeHandler(InitialResponse)),
                                   hist.lastSend.value).g.res)
    /\ (pc = "stream" /\ hist.lastRecv.any) => hist.lastRecv = hist.firstRecv

\* C18: after RegisterGRPCService the handler stored under "/" + ServiceName +
\* "/" + name calls the method, or the streaming handler, of the descriptor with
\* that name and of no other descriptor: in the registry, and in every
\* invocation that called one.
C18_HandlerOfItsDescriptor ==
    /\ \A key \in DOMAIN handlers :
          handlers[key].kind \in {"unary", "stream"}
              => key = RoutingKey(Desc.ServiceName, handlers[key].name)
    /\ (pc \in {"stream", "done"} /\ Len(calls) = 1)
          => match.key = RoutingKey(Desc.ServiceName, calls[1].impl)

\* the values a unary method returned are not a (message, error) pair: their
\* number is not two, or the second is no error, or the first is no message
MalformedResult(r) ==
    \/ r.n # 2
    \/ r.err.kind = "nonerror"
    \/ (r.err = ErrNil /\ r.out.kind = "other")

\* C19: a unary invocation whose method returned values that are not a
\* (message, error) pair ends: HandleLambda returns a response, with status 500
\* and a body that names the malformed result.
C19_MalformedResult ==
    (pc \in {"done", "panic"} /\ Len(calls) = 1 /\ calls[1].result.n > 0
          /\ MalformedResult(calls[1].result))
        => /\ pc = "done"
           /\ ret = Returned
           /\ res.StatusCode = 500
           /\ res.Body # <<>>

\* the stream g after the operations ops, in their order
RECURSIVE ReplayOps(_, _, _)
ReplayOps(g, ops, rq) ==
    IF ops = <<>> THEN g ELSE ReplayOps(ApplyOp(g, Head(ops), rq), Tail(ops), rq)

\* the stream of the call iv, run alone, after the operations iv made so far
AloneStream(iv) ==
    ReplayOps(newGrpcServerStream(CallContext(iv.ctx, iv.req), BeforeHandler(InitialResponse)),
              iv.ops, iv.req)

\* what the handler of the call iv gives when the call runs alone
AloneHandler(iv) ==
    IF handlers[iv.key].kind = "unary"
    THEN UnaryHandler(iv.ctx, iv.req, BeforeHandler(InitialResponse),
                      handlers[iv.key].name, iv.impl)
    ELSE StreamHandlerEnd(AloneStream(iv), iv.err)

\* the response HandleLambda returns for the call iv when it runs alone
AloneResponse(iv) ==
    IF iv.key \notin DOMAIN handlers THEN InitialResponse
    ELSE LET h == AloneHandler(iv) IN AfterHandler(h.res, h.err)

\* C20: while HandleLambda calls run concurrently the registry stays as the
\* registrations left it; every call has a Response and a grpcServerStream of
\* its own; the stream and the response of a running streaming handler are what
\* its own operations made them; and the response a call returned (status,
\* body, flag and headers) is the one the call gives when it runs alone, and
\* stays so.
C20_ConcurrentInvocations ==
    /\ handlers = Registry(loopVarPerIteration)
    /\ \A i, j \in Invs :
          (i # j /\ inv[i].res # 0 /\ inv[j].res # 0)
              => /\ inv[i].res # inv[j].res
                 /\ (inv[i].stream # 0 /\ inv[j].stream # 0) => inv[i].stream # inv[j].stream
    /\ \A i \in Invs :
          /\ inv[i].pc = "stream"
                => /\ heap[inv[i].stream].res = inv[i].res
                   /\ StreamAt(heap, inv[i].stream) = AloneStream(inv[i])
          /\ inv[i].pc = "done"
                => /\ inv[i].out = AloneResponse(inv[i])
                   /\ heap[inv[i].res].val = inv[i].out

\* call 1 entered HandleLambda first and its streaming handler is still running,
\* after a failed RecvMsg and a SendMsg; call 2 entered later, for the same
\* method, did the same two operations in the other order, and has returned
C20_Witness ==
    /\ inv[1].pc = "stream"
    /\ inv[2].pc = "done"
    /\ inv[1].res < inv[2].res
    /\ inv[2].key = inv[1].key
    /\ Len(inv[1].ops) = 2
    /\ inv[1].ops[1].kind = "recv"
    /\ inv[1].ops[2].kind = "send"
    /\ Len(inv[2].ops) = 2
    /\ inv[2].ops[1].kind = "send"
    /\ inv[2].ops[2].kind = "recv"
    /\ inv[2].out.StatusCode = 102
    /\ heap[inv[1].res].val.StatusCode = 400
    /\ heap[inv[1].res].val.Body = <<67, 103, 78, 104, 89, 109, 77>>
    /\ inv[2].out.Body # heap[inv[1].res].val.Body

====
